---------------------------- MODULE Spec2Model ----------------------------
(***************************************************************************)
(* A model of src/main.rs: a Bevy scene whose marker-tagged entities are   *)
(* converted to physics entities when key G is pressed.                    *)
(*                                                                         *)
(* The entity/component store is a function from live entity ids to that   *)
(* entity's components, each a function from component type name to       *)
(* value.  Structural changes are queued as commands and applied when the  *)
(* schedule reaches its synchronisation point (ApplyDeferred).  Components *)
(* the engine adds by itself (required components, physics handles) are    *)
(* not part of the model: the code never names them.                       *)
(*                                                                         *)
(* Numbers: damping, restitution and friction are in hundredths, density   *)
(* in thousandths, so that 0.05, 0.7, 0.0 and 7.874 are integers.          *)
(***************************************************************************)
EXTENDS Integers, Sequences, FiniteSets, TLC

VARIABLES
    DO_WORKAROUND,  \* main.rs:13, the build's workaround flag
    store,          \* the world: live entity id -> (component type -> value)
    nextEntity,     \* the next entity id the allocator hands out
    queue,          \* the commands queued since the last synchronisation point
    ent,            \* the ids the setup systems got from spawn (their locals)
    schedule,       \* "Startup", "PreUpdate" or "Update"
    ran,            \* the systems of the schedule that have run
    keyDown,        \* the keys physically held down
    edge,           \* the keys that went from up to down in this frame
    pressed,        \* ButtonInput::pressed
    just_pressed,   \* ButtonInput::just_pressed
    convertOut,     \* the lines convert_proc printed in this frame
    debugOut,       \* what debug_rbs printed in this frame
    dumpOut,        \* the entity blocks inspect printed in this frame
    convApplied,    \* the store after each of the last two applied conversions
    frameStore      \* the store as it was when the frame's Update began

vars == <<DO_WORKAROUND, store, nextEntity, queue, ent, schedule, ran, keyDown,
          edge, pressed, just_pressed, convertOut, debugOut, dumpOut,
          convApplied, frameStore>>

-----------------------------------------------------------------------------
(* Constants of main.rs *)

LINEAR_DAMPING == 5
ANGULAR_DAMPING == 5
DENSITY == 7874
RESTITUTION == 70
FRICTION == 0

\* a slip: the workaround's classification used as the default
DEFAULT_RB_Fixed == "Fixed"

DEFAULT_RB == "Dynamic"
DEFAULT_DAMPING ==
    [linear_damping |-> LINEAR_DAMPING, angular_damping |-> ANGULAR_DAMPING]
DEFAULT_MASS == [Density |-> DENSITY]
\* a slip: the friction coefficient given to the restitution
DEFAULT_RESTITUTION_Swapped == [coefficient |-> FRICTION]

DEFAULT_RESTITUTION == [coefficient |-> RESTITUTION]
DEFAULT_FRICTION == [coefficient |-> FRICTION]

Keys == {"KeyG", "F1"}
StartupSystems == {"setup_scene", "setup_proc", "setup_static"}
UpdateSystems == {"convert_proc", "inspect", "debug_rbs"}

-----------------------------------------------------------------------------
(* The store and the command queue *)

Has(s, e, c) == e \in DOMAIN s /\ c \in DOMAIN s[e]

\* spawn: the reserved id becomes a live entity carrying the bundle
Spawn(s, e, bundle) ==
    [x \in DOMAIN s \cup {e} |-> IF x = e THEN bundle ELSE s[x]]

\* insert overwrites a component of the same type; the entity must be live
Insert(s, e, bundle) ==
    IF e \in DOMAIN s THEN [s EXCEPT ![e] = bundle @@ s[e]] ELSE s

\* a slip: despawn() where remove::<C>() was meant
Remove_Despawn(s, e, c) == [x \in DOMAIN s \ {e} |-> s[x]]

\* remove::<C>() takes one component type off a live entity
Remove(s, e, c) ==
    IF e \in DOMAIN s
      THEN [s EXCEPT ![e] = [k \in DOMAIN s[e] \ {c} |-> s[e][k]]]
      ELSE s

\* AddChildren: the child gets Parent, the parent's Children gains the child
AddChild(s, p, c) ==
    LET old == IF Has(s, p, "Children") THEN s[p]["Children"] ELSE <<>>
        s1 == Insert(s, c, "Parent" :> p)
    IN  Insert(s1, p, "Children" :> Append(old, c))

ApplyCommand(s, cmd) ==
    CASE cmd.op = "spawn" -> Spawn(s, cmd.e, cmd.bundle)
      [] cmd.op = "insert" -> Insert(s, cmd.e, cmd.bundle)
      [] cmd.op = "remove" -> Remove(s, cmd.e, cmd.c)
      [] cmd.op = "add_child" -> AddChild(s, cmd.e, cmd.child)

RECURSIVE ApplyQueue(_, _)
ApplyQueue(s, q) ==
    IF q = <<>> THEN s ELSE ApplyQueue(ApplyCommand(s, Head(q)), Tail(q))

SpawnCmd(e, b) == [op |-> "spawn", e |-> e, bundle |-> b]
InsertCmd(e, b) == [op |-> "insert", e |-> e, bundle |-> b]
RemoveCmd(e, c) == [op |-> "remove", e |-> e, c |-> c]
AddChildCmd(p, c) == [op |-> "add_child", e |-> p, child |-> c]

-----------------------------------------------------------------------------
(* Startup: setup_scene, setup_proc, setup_static *)

Transform(x, y, z, rot) == [translation |-> <<x, y, z>>, rotation |-> rot]

CameraBundle ==
    ("Camera3d" :> TRUE) @@ ("Transform" :> Transform(0, 15, 15, "looking_at_zero"))

ProcParentBundle ==
    ("Transform" :> Transform(1, 2, 0, "identity"))
    @@ ("InheritedVisibility" :> TRUE)
    @@ ("MarkerParent" :> TRUE)

\* a slip: the child tagged with both markers
ProcChildBundle_BothMarkers ==
    ("Mesh3d" :> "cuboid_1_1_1")
    @@ ("MeshMaterial3d" :> "srgb_1.0_0.3_0.3")
    @@ ("Transform" :> Transform(0, 0, 0, "identity"))
    @@ ("Collider" :> "cuboid_0.5_0.5_0.5")
    @@ ("MarkerChild" :> TRUE)
    @@ ("MarkerParent" :> TRUE)

ProcChildBundle ==
    ("Mesh3d" :> "cuboid_1_1_1")
    @@ ("MeshMaterial3d" :> "srgb_1.0_0.3_0.3")
    @@ ("Transform" :> Transform(0, 0, 0, "identity"))
    @@ ("Collider" :> "cuboid_0.5_0.5_0.5")
    @@ ("MarkerChild" :> TRUE)

\* a slip: the marker of setup_proc's parent copied into setup_static
StaticParentBundle_Marked ==
    ("Transform" :> Transform(-1, 2, 0, "identity"))
    @@ ("InheritedVisibility" :> TRUE)
    @@ ("MarkerParent" :> TRUE)

StaticParentBundle ==
    ("Transform" :> Transform(-1, 2, 0, "identity"))
    @@ ("InheritedVisibility" :> TRUE)

StaticChildBundle ==
    ("Mesh3d" :> "cuboid_1_1_1")
    @@ ("MeshMaterial3d" :> "srgb_0.3_1.0_0.3")
    @@ ("Transform" :> Transform(0, 0, 0, "identity"))
    @@ ("Collider" :> "cuboid_0.5_0.5_0.5")

\* a slip: the workaround flag not consulted, the Fixed body never inserted
SetupProcCommands_NoWorkaround(p, c, workaround) ==
    <<SpawnCmd(p, ProcParentBundle), SpawnCmd(c, ProcChildBundle), AddChildCmd(p, c)>>

\* the commands setup_proc queues for parent p and child c
SetupProcCommands(p, c, workaround) ==
    <<SpawnCmd(p, ProcParentBundle)>>
    \o (IF workaround THEN <<InsertCmd(p, "RigidBody" :> "Fixed")>> ELSE <<>>)
    \o <<SpawnCmd(c, ProcChildBundle), AddChildCmd(p, c)>>

\* the commands setup_static queues for rigid body rb and child c
SetupStaticCommands(rb, c) ==
    <<SpawnCmd(rb, StaticParentBundle),
      InsertCmd(rb, "RigidBody" :> "Dynamic"),
      InsertCmd(rb, "Damping" :> [linear_damping |-> 5, angular_damping |-> 5]),
      SpawnCmd(c, StaticChildBundle),
      InsertCmd(c, "Restitution" :> [coefficient |-> 70]),
      InsertCmd(c, "Friction" :> [coefficient |-> 0]),
      InsertCmd(c, "ColliderMassProperties" :> [Density |-> 7874]),
      AddChildCmd(rb, c)>>

StartupStep(sys) ==
    /\ schedule = "Startup"
    /\ sys \notin ran
    /\ ran' = ran \cup {sys}
    /\ UNCHANGED <<DO_WORKAROUND, store, schedule, keyDown, edge, pressed,
                   just_pressed, convertOut, debugOut, dumpOut, convApplied,
                   frameStore>>

setup_scene ==
    /\ StartupStep("setup_scene")
    /\ nextEntity' = nextEntity + 1
    /\ ent' = ent @@ ("camera" :> nextEntity)
    /\ queue' = Append(queue, SpawnCmd(nextEntity, CameraBundle))

setup_proc ==
    /\ StartupStep("setup_proc")
    /\ nextEntity' = nextEntity + 2
    /\ ent' = ent @@ ("proc_parent" :> nextEntity) @@ ("proc_child" :> nextEntity + 1)
    /\ queue' = queue \o SetupProcCommands(nextEntity, nextEntity + 1, DO_WORKAROUND)

setup_static ==
    /\ StartupStep("setup_static")
    /\ nextEntity' = nextEntity + 2
    /\ ent' = ent @@ ("static_rb" :> nextEntity) @@ ("static_child" :> nextEntity + 1)
    /\ queue' = queue \o SetupStaticCommands(nextEntity, nextEntity + 1)

-----------------------------------------------------------------------------
(* Input: the engine's keyboard system, run before Update in every frame *)

\* what a key can do during one frame, as the events the window system sends
KeyEvents(wasDown) ==
    IF wasDown
      THEN {<<>>, <<"press">>, <<"release">>, <<"release", "press">>}
      ELSE {<<>>, <<"press">>, <<"press", "release">>}

\* ButtonInput::press and ButtonInput::release on one key
RECURSIVE Feed(_, _)
Feed(st, evs) ==
    IF evs = <<>> THEN st
    ELSE LET ev == Head(evs)
             nx == IF ev = "press"
                     THEN IF st.pressed THEN st
                          ELSE [pressed |-> TRUE, just |-> TRUE]
                     ELSE [st EXCEPT !.pressed = FALSE]
         IN  Feed(nx, Tail(evs))

\* the key's physical state after its events
DownAfter(wasDown, evs) ==
    IF evs = <<>> THEN wasDown ELSE evs[Len(evs)] = "press"

\* the key went from up to down during the frame
WentDown(wasDown, evs) ==
    \E i \in 1..Len(evs) :
        /\ evs[i] = "press"
        /\ IF i = 1 THEN ~wasDown ELSE evs[i - 1] = "release"

keyboard_input_system ==
    /\ schedule = "PreUpdate"
    /\ \E evs \in [Keys -> UNION {KeyEvents(b) : b \in BOOLEAN}] :
        /\ \A k \in Keys : evs[k] \in KeyEvents(k \in keyDown)
        /\ LET fed == [k \in Keys |->
                         Feed([pressed |-> k \in pressed, just |-> FALSE], evs[k])]
           IN  /\ pressed' = {k \in Keys : fed[k].pressed}
               /\ just_pressed' = {k \in Keys : fed[k].just}
        /\ keyDown' = {k \in Keys : DownAfter(k \in keyDown, evs[k])}
        /\ edge' = {k \in Keys : WentDown(k \in keyDown, evs[k])}
    /\ schedule' = "Update"
    /\ ran' = {}
    /\ convertOut' = <<>>
    /\ debugOut' = [rb |-> {}, col |-> {}]
    /\ dumpOut' = {}
    /\ frameStore' = store
    /\ UNCHANGED <<DO_WORKAROUND, store, nextEntity, queue, ent, convApplied>>

-----------------------------------------------------------------------------
(* Update: convert_proc, debug_rbs, inspect *)

\* a slip: the With<MarkerParent> filter left out
parents_NoMarkerFilter(s) ==
    {e \in DOMAIN s : Has(s, e, "Transform") /\ ~Has(s, e, "MarkerChild")}

\* a slip: a filter too many, With<RigidBody>
parents_WithRigidBody(s) ==
    {e \in DOMAIN s : /\ Has(s, e, "MarkerParent")
                      /\ Has(s, e, "Transform")
                      /\ Has(s, e, "RigidBody")
                      /\ ~Has(s, e, "MarkerChild")}

\* Query<Entity, (With<MarkerParent>, With<Transform>, Without<MarkerChild>)>
parents(s) ==
    {e \in DOMAIN s : /\ Has(s, e, "MarkerParent")
                      /\ Has(s, e, "Transform")
                      /\ ~Has(s, e, "MarkerChild")}

\* Query<Entity, (With<MarkerChild>, With<Transform>, Without<MarkerParent>)>
children(s) ==
    {e \in DOMAIN s : /\ Has(s, e, "MarkerChild")
                      /\ Has(s, e, "Transform")
                      /\ ~Has(s, e, "MarkerParent")}

\* a slip: pressed() where just_pressed() was meant (level-triggered)
ConvertTriggered_Level == "KeyG" \in pressed

\* key_input.just_pressed(KeyCode::KeyG)
ConvertTriggered == "KeyG" \in just_pressed

\* a slip: the bundle inserted, the marker left on the entity
ParentCommands_KeepMarker(e) ==
    <<InsertCmd(e, ("RigidBody" :> DEFAULT_RB) @@ ("Damping" :> DEFAULT_DAMPING))>>

\* commands.entity(parent).remove::<MarkerParent>().insert((DEFAULT_RB, DEFAULT_DAMPING))
ParentCommands(e) ==
    <<RemoveCmd(e, "MarkerParent"),
      InsertCmd(e, ("RigidBody" :> DEFAULT_RB) @@ ("Damping" :> DEFAULT_DAMPING))>>

\* a slip: the bundle inserted, the marker left on the entity
ChildCommands_KeepMarker(e) ==
    <<InsertCmd(e, ("ColliderMassProperties" :> DEFAULT_MASS)
                   @@ ("Restitution" :> DEFAULT_RESTITUTION)
                   @@ ("Friction" :> DEFAULT_FRICTION))>>

\* commands.entity(child).remove::<MarkerChild>().insert((DEFAULT_MASS, ...))
ChildCommands(e) ==
    <<RemoveCmd(e, "MarkerChild"),
      InsertCmd(e, ("ColliderMassProperties" :> DEFAULT_MASS)
                   @@ ("Restitution" :> DEFAULT_RESTITUTION)
                   @@ ("Friction" :> DEFAULT_FRICTION))>>

\* the orders in which a query may hand out the entities of S
Orders(S) ==
    {o \in [1..Cardinality(S) -> S] :
        \A i, j \in 1..Cardinality(S) : i # j => o[i] # o[j]}

RECURSIVE ParentLoop(_)
ParentLoop(o) ==
    IF o = <<>> THEN <<>> ELSE ParentCommands(Head(o)) \o ParentLoop(Tail(o))

RECURSIVE ChildLoop(_)
ChildLoop(o) ==
    IF o = <<>> THEN <<>> ELSE ChildCommands(Head(o)) \o ChildLoop(Tail(o))

UpdateStep(sys) ==
    /\ schedule = "Update"
    /\ sys \notin ran
    /\ ran' = ran \cup {sys}
    /\ UNCHANGED <<DO_WORKAROUND, store, nextEntity, ent, schedule, keyDown,
                   edge, pressed, just_pressed, convApplied, frameStore>>

\* a slip: the world mutated in place (exclusive access) instead of through Commands
convert_proc_Immediate ==
    /\ schedule = "Update"
    /\ "convert_proc" \notin ran
    /\ ran' = ran \cup {"convert_proc"}
    /\ IF ConvertTriggered
         THEN \E po \in Orders(parents(store)), co \in Orders(children(store)) :
                /\ store' = ApplyQueue(store, ParentLoop(po) \o ChildLoop(co))
                /\ convertOut' = << <<"Converting">>,
                                    <<"ParentAmount", Len(po)>>,
                                    <<"ChildAmount", Len(co)>>,
                                    <<"Finished">> >>
         ELSE UNCHANGED <<store, convertOut>>
    /\ UNCHANGED <<DO_WORKAROUND, nextEntity, queue, ent, schedule, keyDown, edge,
                   pressed, just_pressed, convApplied, frameStore, debugOut,
                   dumpOut>>

convert_proc ==
    /\ UpdateStep("convert_proc")
    /\ IF ConvertTriggered
         THEN \E po \in Orders(parents(store)), co \in Orders(children(store)) :
                /\ queue' = queue \o ParentLoop(po) \o ChildLoop(co)
                /\ convertOut' = << <<"Converting">>,
                                    <<"ParentAmount", Len(po)>>,
                                    <<"ChildAmount", Len(co)>>,
                                    <<"Finished">> >>
         ELSE UNCHANGED <<queue, convertOut>>
    /\ UNCHANGED <<debugOut, dumpOut>>

\* Query<(Entity, &Transform, &RigidBody)>
rbs(s) == {e \in DOMAIN s : Has(s, e, "Transform") /\ Has(s, e, "RigidBody")}

\* Query<(Entity, &Transform, &Collider, &Parent), Without<RigidBody>>
cols(s) ==
    {e \in DOMAIN s : /\ Has(s, e, "Transform")
                      /\ Has(s, e, "Collider")
                      /\ Has(s, e, "Parent")
                      /\ ~Has(s, e, "RigidBody")}

\* a slip: the collider's own rigid body looked up, not its parent's
HasRbParent_Self(s, e) == e \in rbs(s)

\* the lookup as a walk up the parent chain, not of the direct parent alone
RECURSIVE HasRbParent_Ancestor(_, _)
HasRbParent_Ancestor(s, e) ==
    LET p == s[e]["Parent"]
    IN  p \in rbs(s) \/ (Has(s, p, "Parent") /\ HasRbParent_Ancestor(s, p))

\* rbs.get(parent.get()) is Ok
HasRbParent(s, e) == s[e]["Parent"] \in rbs(s)

\* the check as it would be with an optional parent: no parent reads as false
DebugLines_Orphans(s) ==
    [rb |-> {<<e, s[e]["Transform"].translation>> : e \in rbs(s)},
     col |-> {<<e, Has(s, e, "Parent") /\ HasRbParent(s, e)>> :
                e \in {x \in DOMAIN s : /\ Has(s, x, "Transform")
                                        /\ Has(s, x, "Collider")
                                        /\ ~Has(s, x, "RigidBody")}}]

\* the lines debug_rbs prints: "Rb: e, Pos: p" and "Col: e, Has RB parent: b"
DebugLines(s) ==
    [rb |-> {<<e, s[e]["Transform"].translation>> : e \in rbs(s)},
     col |-> {<<e, HasRbParent(s, e)>> : e \in cols(s)}]

debug_rbs ==
    /\ UpdateStep("debug_rbs")
    /\ debugOut' = DebugLines(store)
    /\ UNCHANGED <<queue, convertOut, dumpOut>>

\* key_input.just_pressed(KeyCode::F1)
DumpTriggered == "F1" \in just_pressed

\* a slip: every registered component type listed, not the archetype's
DumpBlocks_AllComponents(s) ==
    {<<e, UNION {DOMAIN s[x] : x \in DOMAIN s}>> : e \in DOMAIN s}

\* one block per entity: its id and the component types of its archetype
DumpBlocks(s) == {<<e, DOMAIN s[e]>> : e \in DOMAIN s}

inspect ==
    /\ UpdateStep("inspect")
    /\ dumpOut' = IF DumpTriggered THEN DumpBlocks(store) ELSE {}
    /\ UNCHANGED <<queue, convertOut, debugOut>>

-----------------------------------------------------------------------------
(* The synchronisation point at the end of Startup and of Update: the      *)
(* queued commands are applied to the world in one exclusive step.         *)

ScheduleSystems == IF schedule = "Startup" THEN StartupSystems ELSE UpdateSystems

\* history for the properties: the last two stores left by an applied conversion
Remember(h, s) == IF Len(h) = 2 THEN <<h[2], s>> ELSE Append(h, s)

ApplyDeferred ==
    /\ schedule \in {"Startup", "Update"}
    /\ ran = ScheduleSystems
    /\ store' = ApplyQueue(store, queue)
    /\ queue' = <<>>
    /\ schedule' = "PreUpdate"
    /\ convApplied' = IF convertOut # <<>>
                        THEN Remember(convApplied, store')
                        ELSE convApplied
    /\ UNCHANGED <<DO_WORKAROUND, nextEntity, ent, ran, keyDown, edge, pressed,
                   just_pressed, convertOut, debugOut, dumpOut, frameStore>>

-----------------------------------------------------------------------------

Init ==
    /\ DO_WORKAROUND \in BOOLEAN
    /\ store = <<>>
    /\ nextEntity = 0
    /\ queue = <<>>
    /\ ent = <<>>
    /\ schedule = "Startup"
    /\ ran = {}
    /\ keyDown = {}
    /\ edge = {}
    /\ pressed = {}
    /\ just_pressed = {}
    /\ convertOut = <<>>
    /\ debugOut = [rb |-> {}, col |-> {}]
    /\ dumpOut = {}
    /\ convApplied = <<>>
    /\ frameStore = <<>>

Next ==
    \/ setup_scene
    \/ setup_proc
    \/ setup_static
    \/ keyboard_input_system
    \/ convert_proc
    \/ debug_rbs
    \/ inspect
    \/ ApplyDeferred

Spec == Init /\ [][Next]_vars

-----------------------------------------------------------------------------
(* One Update frame over an arbitrary small world: the systems are         *)
(* functions of the world and the input, whatever scene was spawned.       *)

MaxEntities == 3

\* the component sets an entity of such a world may carry
WorldKinds ==
    LET T == "Transform" :> Transform(0, 0, 0, "identity")
        C == "Collider" :> "cuboid_0.5_0.5_0.5"
    IN  {T,
         T @@ ("RigidBody" :> "Dynamic"),
         T @@ ("MarkerParent" :> TRUE),
         T @@ ("MarkerParent" :> TRUE) @@ ("RigidBody" :> "Fixed"),
         T @@ C,
         T @@ C @@ ("MarkerChild" :> TRUE),
         T @@ C @@ ("RigidBody" :> "Dynamic")}

\* up[e] is the parent of e, or e itself for an entity without a parent
RECURSIVE Link(_, _, _)
Link(s, up, e) ==
    IF e \notin DOMAIN s THEN s
    ELSE Link(IF up[e] = e THEN s ELSE AddChild(s, up[e], e), up, e + 1)

\* the hierarchies over n entities: a parent has a smaller id than its child
Hierarchies(n) ==
    {u \in [0..(n - 1) -> 0..(n - 1)] : \A e \in 0..(n - 1) : u[e] <= e}

InitWorld ==
    /\ DO_WORKAROUND = TRUE
    /\ \E n \in 1..MaxEntities :
          \E kinds \in [0..(n - 1) -> WorldKinds], up \in Hierarchies(n) :
              store = Link(kinds, up, 0)
    /\ nextEntity = Cardinality(DOMAIN store)
    /\ queue = <<>>
    /\ ent = <<>>
    /\ schedule = "Update"
    /\ ran = {}
    /\ just_pressed \in SUBSET Keys
    /\ pressed = just_pressed
    /\ keyDown = just_pressed
    /\ edge = just_pressed
    /\ convertOut = <<>>
    /\ debugOut = [rb |-> {}, col |-> {}]
    /\ dumpOut = {}
    /\ convApplied = <<>>
    /\ frameStore = store

NextWorld ==
    \/ convert_proc
    \/ debug_rbs
    \/ inspect
    \/ ApplyDeferred

SpecWorld == InitWorld /\ [][NextWorld]_vars

-----------------------------------------------------------------------------
(* Properties *)

Started == schedule # "Startup"
Converted == convApplied # <<>>
Marked(s, c) == {e \in DOMAIN s : Has(s, e, c)}
HasMarker(s, e) == Has(s, e, "MarkerParent") \/ Has(s, e, "MarkerChild")
ParentBundleOn(s, e) ==
    /\ Has(s, e, "RigidBody") /\ s[e]["RigidBody"] = "Dynamic"
    /\ Has(s, e, "Damping")
    /\ s[e]["Damping"] = [linear_damping |-> 5, angular_damping |-> 5]
ChildBundleOn(s, e) ==
    /\ Has(s, e, "ColliderMassProperties")
    /\ s[e]["ColliderMassProperties"] = [Density |-> 7874]
    /\ Has(s, e, "Restitution") /\ s[e]["Restitution"] = [coefficient |-> 70]
    /\ Has(s, e, "Friction") /\ s[e]["Friction"] = [coefficient |-> 0]

\* C1: conversion is idempotent: the store after a second applied trigger
\* equals the store after the first, and a trigger that follows an applied
\* conversion reports ParentAmount 0 and ChildAmount 0.
C1_Idempotent ==
    /\ Len(convApplied) = 2 => convApplied[1] = convApplied[2]
    /\ (schedule = "Update" /\ convertOut # <<>> /\ Converted) =>
          /\ convertOut[2] = <<"ParentAmount", 0>>
          /\ convertOut[3] = <<"ChildAmount", 0>>

\* a second trigger has been applied, and it reported 0/0
C1_Witness ==
    /\ Len(convApplied) = 2
    /\ schedule = "PreUpdate"
    /\ convertOut # <<>>
    /\ convertOut[2] = <<"ParentAmount", 0>>

\* C2: once a conversion has been applied, the procedural parent carries
\* RigidBody Dynamic (whatever the workaround flag gave it at spawn), damping
\* with linear = angular = 0.05, and no MarkerParent.
C2_ParentConverted ==
    Converted =>
        /\ ParentBundleOn(store, ent["proc_parent"])
        /\ ~Has(store, ent["proc_parent"], "MarkerParent")

\* the parent was spawned Fixed by the workaround and has been converted
C2_Witness ==
    /\ Converted
    /\ DO_WORKAROUND
    /\ store[ent["proc_parent"]]["RigidBody"] = "Dynamic"

\* C3: once a conversion has been applied, the procedural child carries
\* density 7.874, restitution 0.7, friction 0.0 and its collider, and no
\* MarkerChild.
C3_ChildConverted ==
    Converted =>
        /\ ChildBundleOn(store, ent["proc_child"])
        /\ Has(store, ent["proc_child"], "Collider")
        /\ ~Has(store, ent["proc_child"], "MarkerChild")

\* the child has been converted
C3_Witness ==
    /\ Converted
    /\ ChildBundleOn(store, ent["proc_child"])
    /\ ~Has(store, ent["proc_child"], "MarkerChild")

\* C4: the conversion system is edge-triggered: during Update, commands are
\* queued or conversion output printed only in a frame in which G went from
\* up to down.
C4_EdgeTriggered ==
    (schedule = "Update" /\ (queue # <<>> \/ convertOut # <<>>)) =>
        "KeyG" \in edge

\* G is held from an earlier frame, convert_proc has run and has done nothing
C4_Witness ==
    /\ schedule = "Update"
    /\ "convert_proc" \in ran
    /\ "KeyG" \in pressed
    /\ "KeyG" \notin edge
    /\ queue = <<>>
    /\ convertOut = <<>>

\* C5: after startup, and until a conversion is applied, exactly one entity
\* carries MarkerParent and exactly one MarkerChild, both have a transform,
\* the child's Parent is the MarkerParent entity, and the camera and the
\* static graph carry no marker.
C5_AfterStartup ==
    (Started /\ ~Converted) =>
        /\ Marked(store, "MarkerParent") = {ent["proc_parent"]}
        /\ Marked(store, "MarkerChild") = {ent["proc_child"]}
        /\ Has(store, ent["proc_parent"], "Transform")
        /\ Has(store, ent["proc_child"], "Transform")
        /\ Has(store, ent["proc_child"], "Parent")
        /\ store[ent["proc_child"]]["Parent"] = ent["proc_parent"]
        /\ \A r \in {"camera", "static_rb", "static_child"} :
              ent[r] \in DOMAIN store /\ ~HasMarker(store, ent[r])

\* startup is over with setup_static run before setup_proc
C5_Witness ==
    /\ Started
    /\ ~Converted
    /\ Cardinality(DOMAIN store) = 5
    /\ ent["static_rb"] < ent["proc_parent"]

\* C6: whenever debug_rbs has run in a frame, it has reported "Has RB parent:
\* true" for the collider child of the static graph.
C6_StaticHasRbParent ==
    (Started /\ "debug_rbs" \in ran) =>
        /\ <<ent["static_child"], TRUE>> \in debugOut.col
        /\ <<ent["static_child"], FALSE>> \notin debugOut.col

\* debug_rbs has run in a frame after a conversion
C6_Witness ==
    /\ Started
    /\ "debug_rbs" \in ran
    /\ Converted
    /\ <<ent["static_child"], TRUE>> \in debugOut.col

\* C8: no step destroys an entity, and no step gives a marker to an entity
\* that carries none.
C8_Monotone ==
    [][/\ DOMAIN store \subseteq DOMAIN store'
       /\ \A e \in DOMAIN store :
             ~HasMarker(store, e) => ~HasMarker(store', e)]_vars

\* two conversions have been applied and no entity carries a marker
C8_Witness ==
    /\ Len(convApplied) = 2
    /\ Cardinality(DOMAIN store) = 5
    /\ \A e \in DOMAIN store : ~HasMarker(store, e)

\* C9: in every state, the procedural parent carries either MarkerParent or
\* the converted bundle, and the procedural child either MarkerChild or its
\* converted bundle: never neither, never both.
C9_Atomic ==
    Started =>
        /\ Has(store, ent["proc_parent"], "MarkerParent")
              # ParentBundleOn(store, ent["proc_parent"])
        /\ Has(store, ent["proc_child"], "MarkerChild")
              # ChildBundleOn(store, ent["proc_child"])

\* a system observes the converted parent and child
C9_Witness ==
    /\ schedule = "Update"
    /\ "debug_rbs" \in ran
    /\ ParentBundleOn(store, ent["proc_parent"])
    /\ ChildBundleOn(store, ent["proc_child"])

\* C10: no entity carries both markers, every marked entity has a transform,
\* and the conversion queries match every marked entity.
C10_MarkersExclusive ==
    /\ \A e \in DOMAIN store :
          /\ ~(Has(store, e, "MarkerParent") /\ Has(store, e, "MarkerChild"))
          /\ HasMarker(store, e) => Has(store, e, "Transform")
    /\ parents(store) = Marked(store, "MarkerParent")
    /\ children(store) = Marked(store, "MarkerChild")

\* a trigger has run the queries over a world that holds both markers
C10_Witness ==
    /\ schedule = "Update"
    /\ convertOut # <<>>
    /\ Marked(store, "MarkerParent") # {}
    /\ Marked(store, "MarkerChild") # {}

\* a collider with a transform, no rigid body and no parent relation
Orphans(s) ==
    {e \in DOMAIN s : /\ Has(s, e, "Transform")
                      /\ Has(s, e, "Collider")
                      /\ ~Has(s, e, "RigidBody")
                      /\ ~Has(s, e, "Parent")}

\* C7 as stated: once debug_rbs has run, it has reported "Has RB parent:
\* false" for every orphaned collider.
C7_OrphanReportsFalse ==
    "debug_rbs" \in ran =>
        \A e \in Orphans(store) : <<e, FALSE>> \in debugOut.col

\* C7 as amended: debug_rbs runs to its end and prints no "Has RB parent"
\* line, true or false, for an orphaned collider; false is what it prints
\* for a collider whose declared parent is not a rigid body.
C7_OrphanNotReported ==
    "debug_rbs" \in ran =>
        /\ \A e \in Orphans(store) :
              <<e, FALSE>> \notin debugOut.col /\ <<e, TRUE>> \notin debugOut.col
        /\ \A e \in cols(store) :
              ~Has(store, store[e]["Parent"], "RigidBody")
                 => <<e, FALSE>> \in debugOut.col

\* debug_rbs has run over a world with an orphaned collider and with a
\* collider whose parent is not a rigid body
C7_Witness ==
    /\ "debug_rbs" \in ran
    /\ Orphans(store) # {}
    /\ \E e \in cols(store) : <<e, FALSE>> \in debugOut.col

\* C11: when F1 is edge-triggered, the dump holds one block per live entity
\* and no other block, and each block lists the component types attached to
\* its entity, no more and no fewer.
C11_DumpExact ==
    (schedule = "Update" /\ "inspect" \in ran /\ "F1" \in edge) =>
        /\ Cardinality(dumpOut) = Cardinality(DOMAIN store)
        /\ {b[1] : b \in dumpOut} = DOMAIN store
        /\ \A b \in dumpOut :
              \A c \in UNION {DOMAIN store[x] : x \in DOMAIN store} :
                  c \in b[2] <=> Has(store, b[1], c)

\* a world of three entities with different component sets has been dumped
C11_Witness ==
    /\ schedule = "Update"
    /\ "inspect" \in ran
    /\ "F1" \in edge
    /\ Cardinality(dumpOut) = 3
    /\ \E a, b \in dumpOut : a[2] # b[2]

\* the components c without the type k
Without(c, k) == [x \in DOMAIN c \ {k} |-> c[x]]

\* what a frame that began with store s leaves behind, g telling whether G
\* went down in it
FrameResult(s, g) ==
    IF ~g THEN s
    ELSE [e \in DOMAIN s |->
            IF e \in parents(s)
              THEN ("RigidBody" :> "Dynamic")
                   @@ ("Damping" :> [linear_damping |-> 5, angular_damping |-> 5])
                   @@ Without(s[e], "MarkerParent")
            ELSE IF e \in children(s)
              THEN ("ColliderMassProperties" :> [Density |-> 7874])
                   @@ ("Restitution" :> [coefficient |-> 70])
                   @@ ("Friction" :> [coefficient |-> 0])
                   @@ Without(s[e], "MarkerChild")
            ELSE s[e]]

\* what inspect and debug_rbs print in a frame that began with store s
Observed(s) ==
    /\ "debug_rbs" \in ran => debugOut = DebugLines(s)
    /\ "inspect" \in ran => dumpOut = IF "F1" \in edge THEN DumpBlocks(s) ELSE {}

\* C12: whatever the order of the three Update systems, the store does not
\* change while they run, inspect and debug_rbs print what the store held
\* when the frame began (the pre-conversion state, in a frame where G went
\* down), and the store at the end of the frame is a function of that store
\* and of the key alone.
C12_OrderIndependent ==
    /\ schedule = "Update" => store = frameStore /\ Observed(frameStore)
    /\ (schedule = "PreUpdate" /\ ran = UpdateSystems) =>
          /\ store = FrameResult(frameStore, "KeyG" \in edge)
          /\ Observed(frameStore)

\* a frame in which G went down has ended: the store has changed, and
\* debug_rbs has printed the lines of the store before the conversion
C12_Witness ==
    /\ schedule = "PreUpdate"
    /\ ran = UpdateSystems
    /\ "KeyG" \in edge
    /\ store # frameStore
    /\ debugOut = DebugLines(frameStore)
    /\ debugOut # DebugLines(store)

\* C13: when G went down in a frame, every entity that carried a marker when
\* the frame began is converted when the frame has ended, and once a
\* conversion has been applied no entity carries a marker.
C13_ConversionComplete ==
    /\ (schedule = "PreUpdate" /\ ran = UpdateSystems /\ "KeyG" \in edge) =>
          /\ \A e \in Marked(frameStore, "MarkerParent") :
                ParentBundleOn(store, e) /\ ~HasMarker(store, e)
          /\ \A e \in Marked(frameStore, "MarkerChild") :
                ChildBundleOn(store, e) /\ ~HasMarker(store, e)
    /\ Converted => \A e \in DOMAIN store : ~HasMarker(store, e)

\* a frame that began with both markers in the world and in which G went
\* down has ended, and no marker is left
C13_Witness ==
    /\ schedule = "PreUpdate"
    /\ ran = UpdateSystems
    /\ "KeyG" \in edge
    /\ Marked(frameStore, "MarkerParent") # {}
    /\ Marked(frameStore, "MarkerChild") # {}
    /\ \A e \in DOMAIN store : ~HasMarker(store, e)

\* some entity above e in the parent chain carries a rigid body
RECURSIVE RbAbove(_, _)
RbAbove(s, e) ==
    /\ Has(s, e, "Parent")
    /\ \/ Has(s, s[e]["Parent"], "RigidBody")
       \/ RbAbove(s, s[e]["Parent"])

\* C14 as stated: debug_rbs reports true for every collider without a rigid
\* body of its own that has a rigid body anywhere above it in the chain.
C14_AncestorReported ==
    (schedule = "Update" /\ "debug_rbs" \in ran) =>
        \A e \in cols(store) : RbAbove(store, e) => <<e, TRUE>> \in debugOut.col

\* C14 as amended: debug_rbs prints one line for every collider that has a
\* transform and a declared parent and no rigid body of its own, and the line
\* says true exactly when the direct parent carries a rigid body and a
\* transform; a rigid body further up the chain does not make it true.
C14_DirectParentReported ==
    (schedule = "Update" /\ "debug_rbs" \in ran) =>
        /\ {l[1] : l \in debugOut.col} = cols(store)
        /\ Cardinality(debugOut.col) = Cardinality(cols(store))
        /\ \A e \in cols(store) :
              <<e, TRUE>> \in debugOut.col
                 <=> /\ Has(store, store[e]["Parent"], "RigidBody")
                     /\ Has(store, store[e]["Parent"], "Transform")

\* debug_rbs has printed false for a collider whose parent is no rigid body
\* and whose grandparent is one
C14_Witness ==
    /\ schedule = "Update"
    /\ "debug_rbs" \in ran
    /\ \E e \in cols(store) :
          /\ ~Has(store, store[e]["Parent"], "RigidBody")
          /\ RbAbove(store, e)
          /\ <<e, FALSE>> \in debugOut.col

\* the component c of entity e is the same in s and t
SameComponent(s, t, e, c) ==
    /\ Has(s, e, c) <=> Has(t, e, c)
    /\ Has(s, e, c) => s[e][c] = t[e][c]

\* C15: after startup the store changes only at the synchronisation point of
\* a frame in which G went down; a step of inspect or debug_rbs changes
\* neither the store nor the command queue; and no step changes the camera,
\* the two entities of the static graph, or any Parent or Children component.
C15_OnlyConversionWrites ==
    [][schedule # "Startup" =>
         /\ store' # store =>
               "KeyG" \in edge /\ schedule = "Update" /\ schedule' = "PreUpdate"
         /\ (ran' # ran /\ "convert_proc" \notin ran' \ ran) =>
               store' = store /\ queue' = queue
         /\ \A r \in {"camera", "static_rb", "static_child"} :
               ent[r] \in DOMAIN store' /\ store'[ent[r]] = store[ent[r]]
         /\ \A e \in DOMAIN store :
               /\ SameComponent(store, store', e, "Parent")
               /\ SameComponent(store, store', e, "Children")]_vars

\* a frame with G and F1 down has ended in which all three systems ran: the
\* store has changed, the camera and the static graph have not
C15_Witness ==
    /\ schedule = "PreUpdate"
    /\ ran = UpdateSystems
    /\ {"KeyG", "F1"} \subseteq edge
    /\ store # frameStore
    /\ \A r \in {"camera", "static_rb", "static_child"} :
          store[ent[r]] = frameStore[ent[r]]

\* C16: until a conversion is applied, the procedural parent is Fixed with
\* the workaround and carries no rigid body without it, and debug_rbs reports
\* true for the procedural child exactly when the workaround is enabled; once
\* a conversion is applied the parent is Dynamic and the report is true under
\* either flag.
C16_WorkaroundDecidesReport ==
    Started =>
        /\ ~Converted =>
              IF DO_WORKAROUND
                THEN /\ Has(store, ent["proc_parent"], "RigidBody")
                     /\ store[ent["proc_parent"]]["RigidBody"] = "Fixed"
                     /\ Has(store, ent["proc_parent"], "MarkerParent")
                ELSE ~Has(store, ent["proc_parent"], "RigidBody")
        /\ Converted =>
              /\ Has(store, ent["proc_parent"], "RigidBody")
              /\ store[ent["proc_parent"]]["RigidBody"] = "Dynamic"
        /\ (schedule = "Update" /\ "debug_rbs" \in ran) =>
              LET expected == Converted \/ DO_WORKAROUND
              IN  /\ <<ent["proc_child"], expected>> \in debugOut.col
                  /\ <<ent["proc_child"], ~expected>> \notin debugOut.col

\* without the workaround, debug_rbs has reported false for the procedural
\* child before any conversion
C16_Witness ==
    /\ ~DO_WORKAROUND
    /\ ~Converted
    /\ schedule = "Update"
    /\ "debug_rbs" \in ran
    /\ <<ent["proc_child"], FALSE>> \in debugOut.col

=============================================================================
